---- MODULE Spec2Model ----
(***************************************************************************)
(* Multi-tenant time tracking API: the attendance state machine (QR scan)  *)
(* and the authorization / tenancy model that gates it.                    *)
(*                                                                         *)
(* Strings that the code takes apart (QR payloads, company ids, employee   *)
(* numbers) are sequences of one-character strings.  Timestamps are        *)
(* integer ticks, TicksPerSecond ticks to the second; a calendar date is   *)
(* the day number of a timestamp.  Rows are records, tables are sets.      *)
(***************************************************************************)
EXTENDS Integers, Sequences, FiniteSets, TLC

\* ----------------------------------------------------------------- bounds
MaxCompanies == 2
MaxEmployees == 2
MaxEntries == 2
MaxSeconds == 6
MaxScans == 2
TicksPerSecond == 2
SecondsPerDay == 6
MaxUsers == 3
MaxRequests == 2

\* ------------------------------------------------------ program constants
COOLDOWN_SECONDS == 5

NULL == -1

MaxTicks == MaxSeconds * TicksPerSecond

VARIABLES owners, companies, users, employees, time_entries,
          tokens, nextId, now, last, scans, requests

vars == <<owners, companies, users, employees, time_entries,
          tokens, nextId, now, last, scans, requests>>

\* ---------------------------------------------------------------- strings
HexDigits == <<"1", "2", "3", "4", "5", "6", "7", "8", "9", "a", "b", "c", "d", "e", "f">>

\* str(uuid.uuid4()): a fresh identifier; it never holds an underscore.
Uuid(n) == <<HexDigits[n]>>

Str_EMP_ == <<"E", "M", "P", "_">>

StartsWith(s, p) == Len(s) >= Len(p) /\ SubSeq(s, 1, Len(p)) = p

RECURSIVE Split(_, _)
Split(s, sep) ==
    IF \A i \in 1..Len(s) : s[i] # sep
    THEN <<s>>
    ELSE LET i == CHOOSE k \in 1..Len(s) :
                      s[k] = sep /\ \A j \in 1..(k - 1) : s[j] # sep
         IN  <<SubSeq(s, 1, i - 1)>> \o Split(SubSeq(s, i + 1, Len(s)), sep)

\* f"EMP_{company_id}_{employee_data.number}_{str(uuid.uuid4())[:8]}"
QrData(company_id, number, suffix) ==
    Str_EMP_ \o company_id \o <<"_">> \o number \o <<"_">> \o suffix

\* Lines 685-689: qr_company_id = parts[1], employee_number = parts[2]
\* (Python counts from 0), for a payload of at least three fields.
DecodeQr(qr_data) ==
    LET parts == Split(qr_data, "_")
    IN  <<parts[2], parts[3]>>

\* ------------------------------------------------------------------- time
\* datetime.now().strftime("%Y-%m-%d")
DateOf(t) == t \div (SecondsPerDay * TicksPerSecond)

\* int(x) of a float given as ticks: truncation toward zero, in seconds.
IntSeconds(ticks) ==
    IF ticks >= 0 THEN ticks \div TicksPerSecond
    ELSE -((-ticks) \div TicksPerSecond)

\* The comparison written against whole seconds: time_diff <= COOLDOWN_SECONDS - 1.
InCooldown_WholeSeconds(current_time, last_scan) ==
    current_time - last_scan <= (COOLDOWN_SECONDS - 1) * TicksPerSecond

\* time_diff < COOLDOWN_SECONDS, time_diff = (current_time - last_scan).total_seconds()
InCooldown(current_time, last_scan) ==
    current_time - last_scan < COOLDOWN_SECONDS * TicksPerSecond

\* The remaining wait rounded up instead of truncated.
RemainingSeconds_RoundUp(current_time, last_scan) ==
    -IntSeconds((current_time - last_scan) - COOLDOWN_SECONDS * TicksPerSecond
                - (TicksPerSecond - 1))

\* remaining_seconds = int(COOLDOWN_SECONDS - time_diff)
RemainingSeconds(current_time, last_scan) ==
    IntSeconds(COOLDOWN_SECONDS * TicksPerSecond - (current_time - last_scan))

\* ------------------------------------------------------------- responses
\* The HTTP response of the most recent request: the status code, the
\* HTTPException detail (or the result's "action"), the seconds named in the
\* cooldown message, the id of the time_entries row a scan fetched or wrote,
\* and the rows a list endpoint returns.
Resp(op, status, detail) ==
    [op |-> op, status |-> status, detail |-> detail, remaining |-> NULL,
     entry |-> NULL, rows |-> {}]

NoResp == Resp("none", 0, "")

\* --------------------------------------------------------- authentication
\* A bearer token is the claims it carries; jwt.decode raises on BadToken.
BadToken == [sub |-> "", type |-> "bad", company_id |-> <<>>, role |-> ""]

UserToken(username, company_id, role) ==
    [sub |-> username, type |-> "user", company_id |-> company_id, role |-> role]

\* The owner's token carries sub and type only; the other claims are absent.
OwnerToken(username) ==
    [sub |-> username, type |-> "owner", company_id |-> <<>>, role |-> ""]

AuthFail(status, detail) == [status |-> status, detail |-> detail]

get_current_user(tok) ==
    IF tok.type = "bad"
    THEN AuthFail(401, "Could not validate credentials")
    ELSE IF tok.type = "owner"
    THEN IF \E o \in owners : o.username = tok.sub
         THEN [status |-> 200, type |-> "owner",
               data |-> CHOOSE o \in owners : o.username = tok.sub]
         ELSE AuthFail(401, "Could not validate credentials")
    ELSE IF \E u \in users : u.username = tok.sub /\ u.company_id = tok.company_id
         THEN [status |-> 200, type |-> "user",
               data |-> CHOOSE u \in users :
                            u.username = tok.sub /\ u.company_id = tok.company_id]
         ELSE AuthFail(401, "Could not validate credentials")

get_current_owner(tok) ==
    LET current_auth == get_current_user(tok)
    IN  IF current_auth.status # 200 THEN current_auth
        ELSE IF current_auth.type # "owner"
        THEN AuthFail(403, "Owner access required")
        ELSE current_auth

get_current_regular_user(tok) ==
    LET current_auth == get_current_user(tok)
    IN  IF current_auth.status # 200 THEN current_auth
        ELSE IF current_auth.type # "user"
        THEN AuthFail(403, "Regular user access required")
        ELSE current_auth

\* The admin dependency without the comparison of the stored role.
get_admin_user_AnyRole(tok) == get_current_regular_user(tok)

get_admin_user(tok) ==
    LET current_user == get_current_regular_user(tok)
    IN  IF current_user.status # 200 THEN current_user
        ELSE IF current_user.data.role # "admin"
        THEN AuthFail(403, "Not enough permissions")
        ELSE current_user

\* ----------------------------------------------------------------- inputs
RegistrationInputs ==
    { [company_name |-> "acme", admin_username |-> "alice"],
      [company_name |-> "bolt", admin_username |-> "bob"] }

Numbers == { <<"7">>, <<"8">> }

Suffixes == { <<"f">> }

TokenInputs == tokens \cup {BadToken}

EmployeeIdInputs == 1..MaxEmployees

CompanyIdInputs == { Uuid(i) : i \in 1..MaxCompanies }

QrInputs ==
    { QrData(c, n, s) : c \in CompanyIdInputs, n \in Numbers, s \in Suffixes }
        \cup { <<"X">>, Str_EMP_ \o <<"1">> }

\* Time that passes between two clock reads of one handler, in ticks.
Lags == {0, 1}

\* Scan requests in flight, each on a connection of its own: where the handler
\* is, and what it has read so far.
Slots == 1..MaxScans

IdleScan ==
    [pc |-> "idle", employee_id |-> NULL, today |-> NULL, current_time |-> NULL,
     write_time |-> NULL, entry |-> NULL]

\* Directory requests in flight, each on a connection of its own: the handler,
\* where it is, its caller and its input.
RequestSlots == 1..MaxRequests

IdleRequest == [pc |-> "idle", op |-> "", tok |-> BadToken, data |-> <<>>]

\* ------------------------------------------------------------------- Init
\* Lines 262-282: the default owner is inserted unless a row named "owner"
\* is there.
create_default_owner(rows) ==
    IF \E o \in rows : o.username = "owner"
    THEN rows
    ELSE rows \cup { [id |-> "owner-1", username |-> "owner"] }

\* The store after startup_event: the schema is empty but for the default owner.
Init ==
    /\ owners = create_default_owner({})
    /\ companies = {}
    /\ users = {}
    /\ employees = {}
    /\ time_entries = {}
    /\ tokens = {}
    /\ nextId = [company |-> 1, user |-> 1, employee |-> 1, entry |-> 1]
    /\ now = 0
    /\ last = NoResp
    /\ scans = [p \in Slots |-> IdleScan]
    /\ requests = [p \in RequestSlots |-> IdleRequest]

\* -------------------------------------------------------------- directory
\* The registration that also enters the new admin into owners.
register_company_AsOwner(company_data) ==
    IF \E c \in companies : c.name = company_data.company_name
    THEN /\ last' = Resp("register_company", 400, "Firma o tej nazwie juz istnieje")
         /\ UNCHANGED <<owners, companies, users, employees, time_entries,
                        tokens, nextId, now, scans, requests>>
    ELSE IF \E u \in users : u.username = company_data.admin_username
    THEN /\ last' = Resp("register_company", 400, "Nazwa uzytkownika juz istnieje")
         /\ UNCHANGED <<owners, companies, users, employees, time_entries,
                        tokens, nextId, now, scans, requests>>
    ELSE /\ nextId.company <= MaxCompanies
         /\ LET company_id == Uuid(nextId.company)
            IN  /\ companies' = companies \cup
                       { [id |-> company_id, name |-> company_data.company_name,
                          owner_id |-> "system"] }
                /\ users' = users \cup
                       { [id |-> nextId.user, username |-> company_data.admin_username,
                          role |-> "admin", company_id |-> company_id] }
                /\ owners' = owners \cup
                       { [id |-> "owner-2", username |-> company_data.admin_username] }
                /\ tokens' = tokens \cup
                       { UserToken(company_data.admin_username, company_id, "admin") }
         /\ nextId' = [nextId EXCEPT !.company = @ + 1, !.user = @ + 1]
         /\ last' = Resp("register_company", 200, "")
         /\ UNCHANGED <<employees, time_entries, now, scans, requests>>

\* Lines 436-479: the two SELECT checks, the INSERTs of the company and its
\* admin, the commit, and the admin's token.
register_company(company_data) ==
    IF \E c \in companies : c.name = company_data.company_name
    THEN /\ last' = Resp("register_company", 400, "Firma o tej nazwie juz istnieje")
         /\ UNCHANGED <<owners, companies, users, employees, time_entries,
                        tokens, nextId, now, scans, requests>>
    ELSE IF \E u \in users : u.username = company_data.admin_username
    THEN /\ last' = Resp("register_company", 400, "Nazwa uzytkownika juz istnieje")
         /\ UNCHANGED <<owners, companies, users, employees, time_entries,
                        tokens, nextId, now, scans, requests>>
    ELSE /\ nextId.company <= MaxCompanies
         /\ LET company_id == Uuid(nextId.company)
            IN  /\ companies' = companies \cup
                       { [id |-> company_id, name |-> company_data.company_name,
                          owner_id |-> "system"] }
                /\ users' = users \cup
                       { [id |-> nextId.user, username |-> company_data.admin_username,
                          role |-> "admin", company_id |-> company_id] }
                /\ tokens' = tokens \cup
                       { UserToken(company_data.admin_username, company_id, "admin") }
         /\ nextId' = [nextId EXCEPT !.company = @ + 1, !.user = @ + 1]
         /\ last' = Resp("register_company", 200, "")
         /\ UNCHANGED <<owners, employees, time_entries, now, scans, requests>>

Fail(op, auth) ==
    /\ last' = Resp(op, auth.status, auth.detail)
    /\ UNCHANGED <<owners, companies, users, employees, time_entries,
                   tokens, nextId, now, scans, requests>>

create_employee(tok, number, suffix) ==
    LET current_user == get_admin_user(tok)
        company_id == current_user.data.company_id
    IN  IF current_user.status # 200 THEN Fail("create_employee", current_user)
        ELSE IF \E e \in employees : e.number = number /\ e.company_id = company_id
        THEN Fail("create_employee",
                  AuthFail(400, "Numer pracownika juz istnieje w tej firmie"))
        ELSE /\ nextId.employee <= MaxEmployees
             /\ employees' = employees \cup
                    { [id |-> nextId.employee, name |-> "ann", number |-> number,
                       qr_code |-> QrData(company_id, number, suffix),
                       company_id |-> company_id] }
             /\ nextId' = [nextId EXCEPT !.employee = @ + 1]
             /\ last' = Resp("create_employee", 200, "")
             /\ UNCHANGED <<owners, companies, users, time_entries, tokens, now, scans, requests>>

\* An optional field of EmployeeUpdate is None ({}) or a value ({v}).
Given(opt, old) == IF opt = {} THEN old ELSE CHOOSE v \in opt : TRUE

\* The handler with "AND id != ?" left out of its SELECT on the number.
update_employee_NoSelfExclusion(tok, employee_id, name_opt, number_opt) ==
    LET current_user == get_admin_user(tok)
        company_id == current_user.data.company_id
    IN  IF current_user.status # 200 THEN Fail("update_employee", current_user)
        ELSE IF ~ \E e \in employees : e.id = employee_id /\ e.company_id = company_id
        THEN Fail("update_employee", AuthFail(404, "Employee not found"))
        ELSE IF \E e \in employees :
                    /\ e.number \in number_opt
                    /\ e.company_id = company_id
        THEN Fail("update_employee",
                  AuthFail(400, "Numer pracownika juz istnieje w tej firmie"))
        ELSE /\ employees' =
                    { IF e.id = employee_id /\ e.company_id = company_id
                      THEN [e EXCEPT !.name = Given(name_opt, @),
                                     !.number = Given(number_opt, @)]
                      ELSE e : e \in employees }
             /\ last' = Resp("update_employee", 200, "")
             /\ UNCHANGED <<owners, companies, users, time_entries, tokens,
                            nextId, now, scans, requests>>

\* Lines 624-663: the row is fetched; the given fields are collected, and a
\* given number is looked for in the other rows of the company, before the
\* one UPDATE runs.  name stands for name, surname and position, which are
\* collected alike; qr_code is not among the updated columns.
update_employee(tok, employee_id, name_opt, number_opt) ==
    LET current_user == get_admin_user(tok)
        company_id == current_user.data.company_id
    IN  IF current_user.status # 200 THEN Fail("update_employee", current_user)
        ELSE IF ~ \E e \in employees : e.id = employee_id /\ e.company_id = company_id
        THEN Fail("update_employee", AuthFail(404, "Employee not found"))
        ELSE IF \E e \in employees :
                    /\ e.number \in number_opt
                    /\ e.company_id = company_id
                    /\ e.id # employee_id
        THEN Fail("update_employee",
                  AuthFail(400, "Numer pracownika juz istnieje w tej firmie"))
        ELSE /\ employees' =
                    { IF e.id = employee_id /\ e.company_id = company_id
                      THEN [e EXCEPT !.name = Given(name_opt, @),
                                     !.number = Given(number_opt, @)]
                      ELSE e : e \in employees }
             /\ last' = Resp("update_employee", 200, "")
             /\ UNCHANGED <<owners, companies, users, time_entries, tokens,
                            nextId, now, scans, requests>>

\* The handler without its DELETE on time_entries.
delete_employee_KeepsEntries(tok, employee_id) ==
    LET current_user == get_admin_user(tok)
        company_id == current_user.data.company_id
    IN  IF current_user.status # 200 THEN Fail("delete_employee", current_user)
        ELSE /\ employees' =
                    { e \in employees :
                        ~ (e.id = employee_id /\ e.company_id = company_id) }
             /\ last' = Resp("delete_employee", 200, "Employee deleted successfully")
             /\ UNCHANGED <<owners, companies, users, time_entries, tokens, nextId,
                            now, scans, requests>>

\* Lines 665-672: DELETE the row by (id, company_id), DELETE the time entries
\* by employee_id, commit.
delete_employee(tok, employee_id) ==
    LET current_user == get_admin_user(tok)
        company_id == current_user.data.company_id
    IN  IF current_user.status # 200 THEN Fail("delete_employee", current_user)
        ELSE /\ employees' =
                    { e \in employees :
                        ~ (e.id = employee_id /\ e.company_id = company_id) }
             /\ time_entries' =
                    { te \in time_entries : te.employee_id # employee_id }
             /\ last' = Resp("delete_employee", 200, "Employee deleted successfully")
             /\ UNCHANGED <<owners, companies, users, tokens, nextId, now, scans, requests>>

\* verify_password is the caller's input: owner_ok for the owners row,
\* user_ok for the users row of that username.
login(username, owner_ok, user_ok) ==
    IF (\E o \in owners : o.username = username) /\ owner_ok
    THEN /\ tokens' = tokens \cup { OwnerToken(username) }
         /\ last' = Resp("login", 200, "owner")
         /\ UNCHANGED <<owners, companies, users, employees, time_entries,
                        nextId, now, scans, requests>>
    ELSE IF (~ \E u \in users : u.username = username) \/ ~ user_ok
    THEN Fail("login", AuthFail(401, "Incorrect username or password"))
    ELSE LET user_row == CHOOSE u \in users : u.username = username
         IN  /\ tokens' = tokens \cup
                    { UserToken(user_row.username, user_row.company_id,
                                user_row.role) }
             /\ last' = Resp("login", 200, "user")
             /\ UNCHANGED <<owners, companies, users, employees, time_entries,
                            nextId, now, scans, requests>>

create_company_user(tok, username, role) ==
    LET current_user == get_admin_user(tok)
    IN  IF current_user.status # 200 THEN Fail("create_company_user", current_user)
        ELSE IF \E u \in users : u.username = username
        THEN Fail("create_company_user",
                  AuthFail(400, "Nazwa uzytkownika juz istnieje"))
        ELSE /\ nextId.user <= MaxUsers
             /\ users' = users \cup
                    { [id |-> nextId.user, username |-> username, role |-> role,
                       company_id |-> current_user.data.company_id] }
             /\ nextId' = [nextId EXCEPT !.user = @ + 1]
             /\ last' = Resp("create_company_user", 200, "")
             /\ UNCHANGED <<owners, companies, employees, time_entries, tokens,
                            now, scans, requests>>

delete_company_user(tok, user_id) ==
    LET current_user == get_admin_user(tok)
        company_id == current_user.data.company_id
    IN  IF current_user.status # 200 THEN Fail("delete_company_user", current_user)
        ELSE IF ~ \E u \in users : u.id = user_id /\ u.company_id = company_id
        THEN Fail("delete_company_user", AuthFail(404, "User not found"))
        ELSE IF user_id = current_user.data.id
        THEN Fail("delete_company_user",
                  AuthFail(400, "Nie mozesz usunac wlasnego konta"))
        ELSE /\ users' = { u \in users :
                             ~ (u.id = user_id /\ u.company_id = company_id) }
             /\ last' = Resp("delete_company_user", 200, "User deleted successfully")
             /\ UNCHANGED <<owners, companies, employees, time_entries, tokens,
                            nextId, now, scans, requests>>

\* The read-only endpoints: the dependency that guards them, then a SELECT.
get_company_info(tok) ==
    LET current_user == get_current_regular_user(tok)
    IN  IF current_user.status # 200 THEN Fail("get_company_info", current_user)
        ELSE IF ~ \E c \in companies : c.id = current_user.data.company_id
        THEN Fail("get_company_info", AuthFail(404, "Company not found"))
        ELSE Fail("get_company_info", AuthFail(200, ""))

\* A list endpoint's answer: the fetched rows, and nothing written.
Listed(op, rows) ==
    /\ last' = [Resp(op, 200, "") EXCEPT !.rows = rows]
    /\ UNCHANGED <<owners, companies, users, employees, time_entries,
                   tokens, nextId, now, scans, requests>>

\* SELECT id, username, email, role, created_at FROM users WHERE company_id = ?
SelectCompanyUsers(company_id) ==
    { [id |-> u.id, username |-> u.username, role |-> u.role] :
        u \in { x \in users : x.company_id = company_id } }

get_company_users(tok) ==
    LET current_user == get_admin_user(tok)
    IN  IF current_user.status # 200 THEN Fail("get_company_users", current_user)
        ELSE Listed("get_company_users",
                    SelectCompanyUsers(current_user.data.company_id))

\* SELECT * FROM employees WHERE company_id = ?
SelectEmployees(company_id) ==
    { e \in employees : e.company_id = company_id }

get_employees(tok) ==
    LET current_user == get_admin_user(tok)
    IN  IF current_user.status # 200 THEN Fail("get_employees", current_user)
        ELSE Listed("get_employees", SelectEmployees(current_user.data.company_id))

\* The join without its WHERE e.company_id = ?
SelectTimeEntries_NoCompanyFilter(company_id) ==
    { [entry |-> q[1], employee_number |-> q[2].number] :
        q \in { x \in time_entries \X employees : x[1].employee_id = x[2].id } }

\* SELECT te.*, e.number, ... FROM time_entries te JOIN employees e
\* ON te.employee_id = e.id WHERE e.company_id = ?
SelectTimeEntries(company_id) ==
    { [entry |-> q[1], employee_number |-> q[2].number] :
        q \in { x \in time_entries \X employees :
                   x[1].employee_id = x[2].id /\ x[2].company_id = company_id } }

get_all_time_entries(tok) ==
    LET current_user == get_admin_user(tok)
    IN  IF current_user.status # 200 THEN Fail("get_all_time_entries", current_user)
        ELSE Listed("get_all_time_entries",
                    SelectTimeEntries(current_user.data.company_id))

\* ------------------------------------------------- owner's company endpoints
get_all_companies(tok) ==
    LET current_owner == get_current_owner(tok)
    IN  IF current_owner.status # 200 THEN Fail("get_all_companies", current_owner)
        ELSE Fail("get_all_companies", AuthFail(200, ""))

\* The handler without its SELECT on the company name.
create_company_NoNameCheck(tok, company_data) ==
    LET current_owner == get_current_owner(tok)
    IN  IF current_owner.status # 200 THEN Fail("create_company", current_owner)
        ELSE IF \E u \in users : u.username = company_data.admin_username
        THEN Fail("create_company", AuthFail(400, "Nazwa uzytkownika juz istnieje"))
        ELSE /\ nextId.company <= MaxCompanies
             /\ LET company_id == Uuid(nextId.company)
                IN  /\ companies' = companies \cup
                           { [id |-> company_id, name |-> company_data.name,
                              owner_id |-> current_owner.data.id] }
                    /\ users' = users \cup
                           { [id |-> nextId.user,
                              username |-> company_data.admin_username,
                              role |-> "admin", company_id |-> company_id] }
             /\ nextId' = [nextId EXCEPT !.company = @ + 1, !.user = @ + 1]
             /\ last' = Resp("create_company", 200, "Company created successfully")
             /\ UNCHANGED <<owners, employees, time_entries, tokens, now, scans, requests>>

create_company(tok, company_data) ==
    LET current_owner == get_current_owner(tok)
    IN  IF current_owner.status # 200 THEN Fail("create_company", current_owner)
        ELSE IF \E c \in companies : c.name = company_data.name
        THEN Fail("create_company", AuthFail(400, "Firma o tej nazwie juz istnieje"))
        ELSE IF \E u \in users : u.username = company_data.admin_username
        THEN Fail("create_company", AuthFail(400, "Nazwa uzytkownika juz istnieje"))
        ELSE /\ nextId.company <= MaxCompanies
             /\ LET company_id == Uuid(nextId.company)
                IN  /\ companies' = companies \cup
                           { [id |-> company_id, name |-> company_data.name,
                              owner_id |-> current_owner.data.id] }
                    /\ users' = users \cup
                           { [id |-> nextId.user,
                              username |-> company_data.admin_username,
                              role |-> "admin", company_id |-> company_id] }
             /\ nextId' = [nextId EXCEPT !.company = @ + 1, !.user = @ + 1]
             /\ last' = Resp("create_company", 200, "Company created successfully")
             /\ UNCHANGED <<owners, employees, time_entries, tokens, now, scans, requests>>

\* The cascade without its DELETE on the time entries.
delete_company_KeepsEntries(tok, company_id) ==
    LET current_owner == get_current_owner(tok)
    IN  IF current_owner.status # 200 THEN Fail("delete_company", current_owner)
        ELSE IF ~ \E c \in companies : c.id = company_id
        THEN Fail("delete_company", AuthFail(404, "Company not found"))
        ELSE /\ users' = { u \in users : u.company_id # company_id }
             /\ employees' = { e \in employees : e.company_id # company_id }
             /\ companies' = { c \in companies : c.id # company_id }
             /\ last' = Resp("delete_company", 200,
                             "Company and all its data deleted successfully")
             /\ UNCHANGED <<owners, time_entries, tokens, nextId, now, scans,
                            requests>>

\* The handler without its SELECT of the company row.
delete_company_NoExistenceCheck(tok, company_id) ==
    LET current_owner == get_current_owner(tok)
        employee_ids == { e.id : e \in { x \in employees : x.company_id = company_id } }
    IN  IF current_owner.status # 200 THEN Fail("delete_company", current_owner)
        ELSE /\ time_entries' =
                    { te \in time_entries : te.employee_id \notin employee_ids }
             /\ users' = { u \in users : u.company_id # company_id }
             /\ employees' = { e \in employees : e.company_id # company_id }
             /\ companies' = { c \in companies : c.id # company_id }
             /\ last' = Resp("delete_company", 200,
                             "Company and all its data deleted successfully")
             /\ UNCHANGED <<owners, tokens, nextId, now, scans, requests>>

\* Lines 229-249: the company row, the ids of its employees, then the DELETEs
\* on time entries, users, employees and the company, and one commit.
delete_company(tok, company_id) ==
    LET current_owner == get_current_owner(tok)
        employee_ids == { e.id : e \in { x \in employees : x.company_id = company_id } }
    IN  IF current_owner.status # 200 THEN Fail("delete_company", current_owner)
        ELSE IF ~ \E c \in companies : c.id = company_id
        THEN Fail("delete_company", AuthFail(404, "Company not found"))
        ELSE /\ time_entries' =
                    { te \in time_entries : te.employee_id \notin employee_ids }
             /\ users' = { u \in users : u.company_id # company_id }
             /\ employees' = { e \in employees : e.company_id # company_id }
             /\ companies' = { c \in companies : c.id # company_id }
             /\ last' = Resp("delete_company", 200,
                             "Company and all its data deleted successfully")
             /\ UNCHANGED <<owners, tokens, nextId, now, scans, requests>>

\* ---------------------------------------------- directory requests, stepwise
\* The same handlers as their awaited storage steps, for requests that
\* overlap.  A SELECT sees what is committed when it runs; the INSERTs of one
\* handler become visible together at its commit.  The dependency's SELECT
\* and the handler's first SELECT are one step.

\* The store without the UNIQUE constraint on users.username.
InsertUserRejected_NoConstraint(username) == FALSE

\* users.username is UNIQUE: the INSERT raises IntegrityError.
InsertUserRejected(username) == \E u \in users : u.username = username

\* The store committing each statement on its own: the written rows stay.
ClosedWithoutCommit_Kept(committed, written) == written

\* The connection is closed with the exception in flight and no commit: the
\* table is what was committed before the handler wrote.
ClosedWithoutCommit(committed, written) == committed

StartRequest(p) ==
    /\ requests[p].pc = "idle"
    /\ \A q \in RequestSlots : q < p => requests[q].pc # "idle"

RespondOnly(response) ==
    /\ last' = response
    /\ UNCHANGED <<owners, companies, users, employees, time_entries, tokens,
                   nextId, now, scans>>

\* register_company, lines 439-446: the SELECT on the company name.
RegisterStart(p, company_data) ==
    /\ StartRequest(p)
    /\ IF \E c \in companies : c.name = company_data.company_name
       THEN /\ RespondOnly(Resp("register_company", 400,
                                "Firma o tej nazwie juz istnieje"))
            /\ UNCHANGED requests
       ELSE /\ requests' = [requests EXCEPT ![p] =
                   [pc |-> "check_user", op |-> "register_company",
                    tok |-> BadToken,
                    data |-> [name |-> company_data.company_name,
                              admin_username |-> company_data.admin_username]]]
            /\ UNCHANGED <<owners, companies, users, employees, time_entries,
                           tokens, nextId, now, last, scans>>

\* create_company: the owner dependency and the SELECT on the company name.
CreateCompanyStart(p, tok, company_data) ==
    LET current_owner == get_current_owner(tok)
    IN  /\ StartRequest(p)
        /\ IF current_owner.status # 200
           THEN /\ RespondOnly(Resp("create_company", current_owner.status,
                                    current_owner.detail))
                /\ UNCHANGED requests
           ELSE IF \E c \in companies : c.name = company_data.name
           THEN /\ RespondOnly(Resp("create_company", 400,
                                    "Firma o tej nazwie juz istnieje"))
                /\ UNCHANGED requests
           ELSE /\ requests' = [requests EXCEPT ![p] =
                       [pc |-> "check_user", op |-> "create_company", tok |-> tok,
                        data |-> [name |-> company_data.name,
                                  admin_username |-> company_data.admin_username]]]
                /\ UNCHANGED <<owners, companies, users, employees, time_entries,
                               tokens, nextId, now, last, scans>>

\* Both handlers: the SELECT on the admin username.
CompanyCheckUser(p) ==
    LET me == requests[p]
    IN  /\ me.pc = "check_user"
        /\ IF \E u \in users : u.username = me.data.admin_username
           THEN /\ RespondOnly(Resp(me.op, 400, "Nazwa uzytkownika juz istnieje"))
                /\ requests' = [requests EXCEPT ![p] = IdleRequest]
           ELSE /\ requests' = [requests EXCEPT ![p].pc = "insert"]
                /\ UNCHANGED <<owners, companies, users, employees, time_entries,
                               tokens, nextId, now, last, scans>>

\* Both handlers: INSERT company, INSERT admin user, commit; register_company
\* then signs the admin's token.  An INSERT the store rejects is an unhandled
\* exception: the response is 500 and the connection closes uncommitted.
CompanyCommit(p) ==
    LET me == requests[p]
        company_id == Uuid(nextId.company)
        owner_id == IF me.op = "register_company" THEN "system"
                    ELSE (CHOOSE o \in owners : o.username = me.tok.sub).id
        new_company == [id |-> company_id, name |-> me.data.name,
                        owner_id |-> owner_id]
        admin_user == [id |-> nextId.user, username |-> me.data.admin_username,
                       role |-> "admin", company_id |-> company_id]
    IN  /\ me.pc = "insert"
        /\ me.op \in {"register_company", "create_company"}
        /\ nextId.company <= MaxCompanies
        /\ IF InsertUserRejected(me.data.admin_username)
           THEN /\ companies' = ClosedWithoutCommit(companies,
                                                    companies \cup {new_company})
                /\ last' = Resp(me.op, 500, "Internal Server Error")
                /\ UNCHANGED <<users, tokens>>
           ELSE /\ companies' = companies \cup {new_company}
                /\ users' = users \cup {admin_user}
                /\ tokens' = IF me.op = "register_company"
                             THEN tokens \cup { UserToken(me.data.admin_username,
                                                          company_id, "admin") }
                             ELSE tokens
                /\ last' = Resp(me.op, 200, "")
        /\ nextId' = [nextId EXCEPT !.company = @ + 1, !.user = @ + 1]
        /\ requests' = [requests EXCEPT ![p] = IdleRequest]
        /\ UNCHANGED <<owners, employees, time_entries, now, scans>>

\* create_company_user: the admin dependency and the SELECT on the username.
CreateUserStart(p, tok, username, role) ==
    LET current_user == get_admin_user(tok)
    IN  /\ StartRequest(p)
        /\ IF current_user.status # 200
           THEN /\ RespondOnly(Resp("create_company_user", current_user.status,
                                    current_user.detail))
                /\ UNCHANGED requests
           ELSE IF \E u \in users : u.username = username
           THEN /\ RespondOnly(Resp("create_company_user", 400,
                                    "Nazwa uzytkownika juz istnieje"))
                /\ UNCHANGED requests
           ELSE /\ requests' = [requests EXCEPT ![p] =
                       [pc |-> "insert", op |-> "create_company_user", tok |-> tok,
                        data |-> [username |-> username, role |-> role]]]
                /\ UNCHANGED <<owners, companies, users, employees, time_entries,
                               tokens, nextId, now, last, scans>>

\* create_company_user: the INSERT and its commit.
CreateUserCommit(p) ==
    LET me == requests[p]
    IN  /\ me.pc = "insert"
        /\ me.op = "create_company_user"
        /\ nextId.user <= MaxUsers
        /\ IF InsertUserRejected(me.data.username)
           THEN /\ last' = Resp(me.op, 500, "Internal Server Error")
                /\ UNCHANGED users
           ELSE /\ users' = users \cup
                       { [id |-> nextId.user, username |-> me.data.username,
                          role |-> me.data.role, company_id |-> me.tok.company_id] }
                /\ last' = Resp(me.op, 200, "")
        /\ nextId' = [nextId EXCEPT !.user = @ + 1]
        /\ requests' = [requests EXCEPT ![p] = IdleRequest]
        /\ UNCHANGED <<owners, companies, employees, time_entries, tokens, now,
                       scans>>

\* The store without the UNIQUE(number, company_id) constraint on employees.
EmployeeKeyRejected_NoConstraint(number, company_id, id) == FALSE

\* employees has UNIQUE(number, company_id): an INSERT or UPDATE that gives
\* row id a key another row holds raises IntegrityError.
EmployeeKeyRejected(number, company_id, id) ==
    \E e \in employees :
        e.number = number /\ e.company_id = company_id /\ e.id # id

\* create_employee, lines 578-586: the admin dependency and the SELECT on
\* (number, company_id).
CreateEmployeeStart(p, tok, number, suffix) ==
    LET current_user == get_admin_user(tok)
        company_id == current_user.data.company_id
    IN  /\ StartRequest(p)
        /\ IF current_user.status # 200
           THEN /\ RespondOnly(Resp("create_employee", current_user.status,
                                    current_user.detail))
                /\ UNCHANGED requests
           ELSE IF \E e \in employees : e.number = number /\ e.company_id = company_id
           THEN /\ RespondOnly(Resp("create_employee", 400,
                                    "Numer pracownika juz istnieje w tej firmie"))
                /\ UNCHANGED requests
           ELSE /\ requests' = [requests EXCEPT ![p] =
                       [pc |-> "insert", op |-> "create_employee", tok |-> tok,
                        data |-> [number |-> number, suffix |-> suffix]]]
                /\ UNCHANGED <<owners, companies, users, employees, time_entries,
                               tokens, nextId, now, last, scans>>

\* create_employee, lines 588-606: the INSERT and its commit.
CreateEmployeeCommit(p) ==
    LET me == requests[p]
        company_id == me.tok.company_id
    IN  /\ me.pc = "insert"
        /\ me.op = "create_employee"
        /\ IF EmployeeKeyRejected(me.data.number, company_id, nextId.employee)
           THEN /\ last' = Resp(me.op, 500, "Internal Server Error")
                /\ UNCHANGED <<employees, nextId>>
           ELSE /\ nextId.employee <= MaxEmployees
                /\ employees' = employees \cup
                       { [id |-> nextId.employee, name |-> "ann",
                          number |-> me.data.number,
                          qr_code |-> QrData(company_id, me.data.number,
                                             me.data.suffix),
                          company_id |-> company_id] }
                /\ nextId' = [nextId EXCEPT !.employee = @ + 1]
                /\ last' = Resp(me.op, 200, "")
        /\ requests' = [requests EXCEPT ![p] = IdleRequest]
        /\ UNCHANGED <<owners, companies, users, time_entries, tokens, now, scans>>

\* update_employee, lines 625-629: the admin dependency and the SELECT of
\* the row; with no number given there is nothing more to do here.
UpdateEmployeeStart(p, tok, employee_id, number_opt) ==
    LET current_user == get_admin_user(tok)
        company_id == current_user.data.company_id
    IN  /\ StartRequest(p)
        /\ IF current_user.status # 200
           THEN /\ RespondOnly(Resp("update_employee", current_user.status,
                                    current_user.detail))
                /\ UNCHANGED requests
           ELSE IF ~ \E e \in employees :
                       e.id = employee_id /\ e.company_id = company_id
           THEN /\ RespondOnly(Resp("update_employee", 404, "Employee not found"))
                /\ UNCHANGED requests
           ELSE IF number_opt = {}
           THEN /\ RespondOnly(Resp("update_employee", 200, ""))
                /\ UNCHANGED requests
           ELSE /\ requests' = [requests EXCEPT ![p] =
                       [pc |-> "check_number", op |-> "update_employee", tok |-> tok,
                        data |-> [id |-> employee_id,
                                  number |-> CHOOSE n \in number_opt : TRUE]]]
                /\ UNCHANGED <<owners, companies, users, employees, time_entries,
                               tokens, nextId, now, last, scans>>

\* update_employee, lines 644-654: the SELECT for another row with the number.
UpdateEmployeeCheck(p) ==
    LET me == requests[p]
    IN  /\ me.pc = "check_number"
        /\ IF \E e \in employees :
                  /\ e.number = me.data.number
                  /\ e.company_id = me.tok.company_id
                  /\ e.id # me.data.id
           THEN /\ RespondOnly(Resp(me.op, 400,
                                    "Numer pracownika juz istnieje w tej firmie"))
                /\ requests' = [requests EXCEPT ![p] = IdleRequest]
           ELSE /\ requests' = [requests EXCEPT ![p].pc = "update"]
                /\ UNCHANGED <<owners, companies, users, employees, time_entries,
                               tokens, nextId, now, last, scans>>

\* update_employee, lines 656-663: the UPDATE by (id, company_id), its
\* commit, and the SELECT of the row for the response, which fails when the
\* row is gone.
UpdateEmployeeCommit(p) ==
    LET me == requests[p]
        company_id == me.tok.company_id
    IN  /\ me.pc = "update"
        /\ IF EmployeeKeyRejected(me.data.number, company_id, me.data.id)
              /\ \E e \in employees : e.id = me.data.id /\ e.company_id = company_id
           THEN /\ last' = Resp(me.op, 500, "Internal Server Error")
                /\ UNCHANGED employees
           ELSE /\ employees' =
                       { IF e.id = me.data.id /\ e.company_id = company_id
                         THEN [e EXCEPT !.number = me.data.number]
                         ELSE e : e \in employees }
                /\ last' = IF \E e \in employees :
                                  e.id = me.data.id /\ e.company_id = company_id
                           THEN Resp(me.op, 200, "")
                           ELSE Resp(me.op, 500, "Internal Server Error")
        /\ requests' = [requests EXCEPT ![p] = IdleRequest]
        /\ UNCHANGED <<owners, companies, users, time_entries, tokens, nextId,
                       now, scans>>

\* delete_company_user, lines 556-569: the admin dependency, the SELECT of
\* the row to delete, and the comparison with the caller's own id.
DeleteUserStart(p, tok, user_id) ==
    LET current_user == get_admin_user(tok)
        company_id == current_user.data.company_id
    IN  /\ StartRequest(p)
        /\ IF current_user.status # 200
           THEN /\ RespondOnly(Resp("delete_company_user", current_user.status,
                                    current_user.detail))
                /\ UNCHANGED requests
           ELSE IF ~ \E u \in users : u.id = user_id /\ u.company_id = company_id
           THEN /\ RespondOnly(Resp("delete_company_user", 404, "User not found"))
                /\ UNCHANGED requests
           ELSE IF user_id = current_user.data.id
           THEN /\ RespondOnly(Resp("delete_company_user", 400,
                                    "Nie mozesz usunac wlasnego konta"))
                /\ UNCHANGED requests
           ELSE /\ requests' = [requests EXCEPT ![p] =
                       [pc |-> "delete", op |-> "delete_company_user", tok |-> tok,
                        data |-> [user_id |-> user_id, company_id |-> company_id]]]
                /\ UNCHANGED <<owners, companies, users, employees, time_entries,
                               tokens, nextId, now, last, scans>>

\* delete_company_user, lines 571-574: the DELETE by (id, company_id) and
\* its commit.
DeleteUserCommit(p) ==
    LET me == requests[p]
    IN  /\ me.pc = "delete"
        /\ me.op = "delete_company_user"
        /\ users' = { u \in users :
                        ~ (u.id = me.data.user_id
                           /\ u.company_id = me.data.company_id) }
        /\ last' = Resp(me.op, 200, "User deleted successfully")
        /\ requests' = [requests EXCEPT ![p] = IdleRequest]
        /\ UNCHANGED <<owners, companies, employees, time_entries, tokens,
                       nextId, now, scans>>

\* ------------------------------------------------------------------- scan
\* The lookup without the tenant comparison: the employee is found under the
\* company the payload names.
ScanLookup_NoTenantCheck(tok, qr_data) ==
    LET current_user == get_current_regular_user(tok)
        parts == Split(qr_data, "_")
    IN  IF current_user.status # 200 THEN current_user
        ELSE IF ~ StartsWith(qr_data, Str_EMP_)
        THEN AuthFail(400, "Invalid QR code")
        ELSE IF Len(parts) < 3
        THEN AuthFail(400, "Invalid QR code format")
        ELSE IF ~ \E e \in employees : e.number = parts[3] /\ e.company_id = parts[2]
        THEN AuthFail(404, "Employee not found")
        ELSE [status |-> 200,
              employee |-> CHOOSE e \in employees :
                               e.number = parts[3] /\ e.company_id = parts[2]]

\* The employee SELECT without the number in its WHERE clause.
ScanLookup_AnyNumber(tok, qr_data) ==
    LET current_user == get_current_regular_user(tok)
        company_id == current_user.data.company_id
        parts == Split(qr_data, "_")
    IN  IF current_user.status # 200 THEN current_user
        ELSE IF ~ StartsWith(qr_data, Str_EMP_)
        THEN AuthFail(400, "Invalid QR code")
        ELSE IF Len(parts) < 3
        THEN AuthFail(400, "Invalid QR code format")
        ELSE IF parts[2] # company_id
        THEN AuthFail(403, "QR kod nie nalezy do Twojej firmy")
        ELSE IF ~ \E e \in employees : e.company_id = company_id
        THEN AuthFail(404, "Employee not found")
        ELSE [status |-> 200,
              employee |-> CHOOSE e \in employees : e.company_id = company_id]

\* Lines 676-703: the caller, the payload, the employee row.
ScanLookup(tok, qr_data) ==
    LET current_user == get_current_regular_user(tok)
        company_id == current_user.data.company_id
        parts == Split(qr_data, "_")
    IN  IF current_user.status # 200 THEN current_user
        ELSE IF ~ StartsWith(qr_data, Str_EMP_)
        THEN AuthFail(400, "Invalid QR code")
        ELSE IF Len(parts) < 3
        THEN AuthFail(400, "Invalid QR code format")
        ELSE IF parts[2] # company_id
        THEN AuthFail(403, "QR kod nie nalezy do Twojej firmy")
        ELSE IF ~ \E e \in employees : e.number = parts[3] /\ e.company_id = company_id
        THEN AuthFail(404, "Employee not found")
        ELSE [status |-> 200,
              employee |-> CHOOSE e \in employees :
                               e.number = parts[3] /\ e.company_id = company_id]

\* The SELECT without "AND date = ?".
WorkingEntries_AnyDate(employee_id, today) ==
    { te \in time_entries :
        te.employee_id = employee_id /\ te.status = "working" }

\* The SELECT with the status filter on the wrong value.
WorkingEntries_WrongStatus(employee_id, today) ==
    { te \in time_entries :
        te.employee_id = employee_id /\ te.date = today /\ te.status = "completed" }

\* SELECT * FROM time_entries WHERE employee_id = ? AND date = ? AND status = 'working'
WorkingEntries(employee_id, today) ==
    { te \in time_entries :
        te.employee_id = employee_id /\ te.date = today /\ te.status = "working" }

\* The handler without its cooldown check.
CooldownRejects_Never(existing_entry, current_time) == FALSE

\* Lines 715-725: the cooldown rejection for the fetched row.
CooldownRejects(existing_entry, current_time) ==
    /\ existing_entry.last_scan_time # NULL
    /\ InCooldown(current_time, existing_entry.last_scan_time)

\* The UPDATE without last_scan_time in its SET list.
CheckOutUpdate_NoLastScan(entries, id, check_out_time) ==
    { IF te.id = id
      THEN [te EXCEPT !.check_out = check_out_time, !.status = "completed"]
      ELSE te : te \in entries }

\* Lines 729-733: UPDATE time_entries SET check_out, status, last_scan_time WHERE id = ?
CheckOutUpdate(entries, id, check_out_time) ==
    { IF te.id = id
      THEN [te EXCEPT !.check_out = check_out_time, !.status = "completed",
                      !.last_scan_time = check_out_time]
      ELSE te : te \in entries }

\* The INSERT without last_scan_time in its column list.
CheckInRow_NoLastScan(entry_id, employee_id, today, check_in_time) ==
    [id |-> entry_id, employee_id |-> employee_id, check_in |-> check_in_time,
     check_out |-> NULL, date |-> today, status |-> "working",
     last_scan_time |-> NULL]

\* Lines 745-750: the inserted row.
CheckInRow(entry_id, employee_id, today, check_in_time) ==
    [id |-> entry_id, employee_id |-> employee_id, check_in |-> check_in_time,
     check_out |-> NULL, date |-> today, status |-> "working",
     last_scan_time |-> check_in_time]

ScanResp(action, entry_id) ==
    [op |-> "scan", status |-> 200, detail |-> action, remaining |-> NULL,
     entry |-> entry_id, rows |-> {}]

CooldownResp(remaining_seconds, entry_id) ==
    [op |-> "scan", status |-> 429, detail |-> "Poczekaj",
     remaining |-> remaining_seconds, entry |-> entry_id, rows |-> {}]

\* The whole handler, run to completion.  The clock is read at line 705
\* (today), at line 706 (current_time, lag1 ticks later) and at line 728 or
\* 745 (the time written, lag2 ticks later still).
ScanAt(tok, qr_data, lag1, lag2) ==
    LET found == ScanLookup(tok, qr_data)
        today == DateOf(now)
        current_time == now + lag1
        write_time == current_time + lag2
        rows == WorkingEntries(found.employee.id, today)
    IN  IF found.status # 200 THEN Fail("scan", found)
        ELSE /\ write_time <= MaxTicks
             /\ IF rows # {}
                THEN \E existing_entry \in rows :
                     IF CooldownRejects(existing_entry, current_time)
                     THEN /\ last' = CooldownResp(
                                 RemainingSeconds(current_time,
                                                  existing_entry.last_scan_time),
                                 existing_entry.id)
                          /\ now' = current_time
                          /\ UNCHANGED <<owners, companies, users, employees,
                                         time_entries, tokens, nextId, scans, requests>>
                     ELSE /\ time_entries' = CheckOutUpdate(
                                 time_entries, existing_entry.id, write_time)
                          /\ last' = ScanResp("check_out", existing_entry.id)
                          /\ now' = write_time
                          /\ UNCHANGED <<owners, companies, users, employees,
                                         tokens, nextId, scans, requests>>
                ELSE /\ nextId.entry <= MaxEntries
                     /\ time_entries' = time_entries \cup
                            { CheckInRow(nextId.entry, found.employee.id,
                                         today, write_time) }
                     /\ nextId' = [nextId EXCEPT !.entry = @ + 1]
                     /\ last' = ScanResp("check_in", nextId.entry)
                     /\ now' = write_time
                     /\ UNCHANGED <<owners, companies, users, employees,
                                    tokens, scans, requests>>

scan_qr(tok, qr_data, lags) ==
    \E lag1 \in lags, lag2 \in lags : ScanAt(tok, qr_data, lag1, lag2)

\* The same handler as its awaited storage steps, for requests that overlap.
\* A statement sees what is committed when it runs; the handler's own writes
\* become visible at its commit.
\* Lines 676-706: the employee row is fetched, then the clock is read.
ScanStart(p, tok, qr_data) ==
    LET found == ScanLookup(tok, qr_data)
    IN  /\ scans[p].pc = "idle"
        /\ \A q \in Slots : q < p => scans[q].pc # "idle"
        /\ IF found.status # 200
           THEN /\ last' = Resp("scan", found.status, found.detail)
                /\ UNCHANGED scans
           ELSE /\ scans' = [scans EXCEPT ![p] =
                       [IdleScan EXCEPT !.pc = "select",
                                        !.employee_id = found.employee.id,
                                        !.today = DateOf(now),
                                        !.current_time = now]]
                /\ UNCHANGED last
        /\ UNCHANGED <<owners, companies, users, employees, time_entries, tokens,
                       nextId, now, requests>>

\* Lines 709-728 / 745: the open entry is fetched, the cooldown decided, and
\* the time to write is read.
ScanSelect(p) ==
    LET me == scans[p]
        rows == WorkingEntries(me.employee_id, me.today)
    IN  /\ me.pc = "select"
        /\ IF rows # {}
           THEN \E existing_entry \in rows :
                IF CooldownRejects(existing_entry, me.current_time)
                THEN /\ last' = CooldownResp(
                            RemainingSeconds(me.current_time,
                                             existing_entry.last_scan_time),
                            existing_entry.id)
                     /\ scans' = [scans EXCEPT ![p] = IdleScan]
                ELSE /\ scans' = [scans EXCEPT ![p].pc = "update",
                                               ![p].entry = existing_entry.id,
                                               ![p].write_time = now]
                     /\ UNCHANGED last
           ELSE /\ scans' = [scans EXCEPT ![p].pc = "insert", ![p].write_time = now]
                /\ UNCHANGED last
        /\ UNCHANGED <<owners, companies, users, employees, time_entries, tokens,
                       nextId, now, requests>>

\* Lines 729-734 / 746-751: the UPDATE or INSERT, and its commit.
ScanWrite(p) ==
    LET me == scans[p]
    IN  /\ me.pc \in {"update", "insert"}
        /\ IF me.pc = "update"
           THEN /\ time_entries' = CheckOutUpdate(time_entries, me.entry, me.write_time)
                /\ last' = ScanResp("check_out", me.entry)
                /\ UNCHANGED nextId
           ELSE /\ nextId.entry <= MaxEntries
                /\ time_entries' = time_entries \cup
                       { CheckInRow(nextId.entry, me.employee_id, me.today,
                                    me.write_time) }
                /\ nextId' = [nextId EXCEPT !.entry = @ + 1]
                /\ last' = ScanResp("check_in", nextId.entry)
        /\ scans' = [scans EXCEPT ![p] = IdleScan]
        /\ UNCHANGED <<owners, companies, users, employees, tokens, now, requests>>

\* ------------------------------------------------------------------ clock
Advance(ticks) ==
    /\ now + ticks <= MaxTicks
    /\ now' = now + ticks
    /\ UNCHANGED <<owners, companies, users, employees, time_entries, tokens,
                   nextId, last, scans, requests>>

\* --------------------------------------------------------- specifications
\* Requests run one at a time, each to completion.
Next ==
    \/ \E company_data \in RegistrationInputs : register_company(company_data)
    \/ \E tok \in tokens, suffix \in Suffixes :
          create_employee(tok, <<"7">>, suffix)
    \/ \E tok \in TokenInputs, qr_data \in QrInputs : scan_qr(tok, qr_data, {0})
    \/ Advance(TicksPerSecond)

Spec == Init /\ [][Next]_vars

NextCrud ==
    \/ \E company_data \in RegistrationInputs : register_company(company_data)
    \/ \E tok \in tokens, suffix \in Suffixes :
          create_employee(tok, <<"7">>, suffix)
    \/ \E tok \in tokens, id \in EmployeeIdInputs, n \in Numbers :
          update_employee(tok, id, {}, {n})
    \/ \E tok \in tokens, id \in EmployeeIdInputs : delete_employee(tok, id)
    \/ \E tok \in tokens, e \in employees : scan_qr(tok, e.qr_code, {0})
    \/ Advance(COOLDOWN_SECONDS * TicksPerSecond)

SpecCrud == Init /\ [][NextCrud]_vars

\* One company, the clock at its finest, and the handler's clock reads apart.
NextFine ==
    \/ register_company([company_name |-> "acme", admin_username |-> "alice"])
    \/ \E tok \in tokens, suffix \in Suffixes :
          create_employee(tok, <<"7">>, suffix)
    \/ \E tok \in tokens, e \in employees : scan_qr(tok, e.qr_code, Lags)
    \/ Advance(1)

SpecFine == Init /\ [][NextFine]_vars

\* Scan requests overlap: each is a sequence of storage steps.
NextConc ==
    \/ register_company([company_name |-> "acme", admin_username |-> "alice"])
    \/ \E tok \in tokens, suffix \in Suffixes :
          create_employee(tok, <<"7">>, suffix)
    \/ \E p \in Slots, tok \in tokens, e \in employees :
          ScanStart(p, tok, e.qr_code)
    \/ \E p \in Slots : ScanSelect(p)
    \/ \E p \in Slots : ScanWrite(p)
    \/ Advance(TicksPerSecond)

SpecConc == Init /\ [][NextConc]_vars

\* Employee numbers are free text: one of them holds the separator.
CodecNumbers == { <<"7">>, <<"7", "_", "8">> }

\* Payloads a client can present: the issued ones, an issued one cut after
\* its number, and one without the prefix.
CodecQrInputs ==
    { e.qr_code : e \in employees }
        \cup { Str_EMP_ \o e.company_id \o <<"_">> \o e.number : e \in employees }
        \cup { <<"X">> }

NextCodec ==
    \/ \E company_data \in RegistrationInputs : register_company(company_data)
    \/ \E tok \in tokens, number \in CodecNumbers, suffix \in Suffixes :
          create_employee(tok, number, suffix)
    \/ \E tok \in tokens, qr_data \in CodecQrInputs : scan_qr(tok, qr_data, {0})
    \/ Advance(COOLDOWN_SECONDS * TicksPerSecond)

SpecCodec == Init /\ [][NextCodec]_vars

\* Usernames a client may log in with, wrong password or right.
LoginInputs == { "owner", "alice", "carol" }

UserCreateInputs ==
    { [username |-> "carol", role |-> "user"],
      [username |-> "carol", role |-> "admin"] }

UserIdInputs == 1..MaxUsers

CompanyCreateInputs ==
    { [name |-> "bolt", admin_username |-> "bob"],
      [name |-> "acme", admin_username |-> "dave"],
      [name |-> "cord", admin_username |-> "alice"] }

\* Every endpoint, called with every token issued so far.
NextAuth ==
    \/ register_company([company_name |-> "acme", admin_username |-> "alice"])
    \/ \E username \in LoginInputs, ok \in BOOLEAN : login(username, ok, ok)
    \/ \E tok \in tokens, user_data \in UserCreateInputs :
          create_company_user(tok, user_data.username, user_data.role)
    \/ \E tok \in tokens, user_id \in UserIdInputs : delete_company_user(tok, user_id)
    \/ \E tok \in tokens : get_company_info(tok)
    \/ \E tok \in tokens : get_company_users(tok)
    \/ \E tok \in tokens : get_employees(tok)
    \/ \E tok \in tokens : get_all_time_entries(tok)
    \/ \E tok \in tokens : get_all_companies(tok)
    \/ \E tok \in tokens :
          create_company(tok, [name |-> "bolt", admin_username |-> "bob"])
    \/ \E tok \in tokens, company_id \in CompanyIdInputs :
          delete_company(tok, company_id)
    \/ \E tok \in tokens, suffix \in Suffixes :
          create_employee(tok, <<"7">>, suffix)
    \/ \E tok \in tokens, id \in EmployeeIdInputs : update_employee(tok, id, {}, {<<"8">>})
    \/ \E tok \in tokens, id \in EmployeeIdInputs : delete_employee(tok, id)
    \/ \E tok \in tokens, e \in employees : scan_qr(tok, e.qr_code, {0})

SpecAuth == Init /\ [][NextAuth]_vars

\* The tokens of company users, admins or not.
ScopedTokens == { tok \in tokens : tok.type = "user" }

\* One company with an admin and a plain user, and the owner: the company's
\* endpoints called with every token, the owner's endpoints with the tokens
\* of company users.
NextGate ==
    \/ register_company([company_name |-> "acme", admin_username |-> "alice"])
    \/ \E username \in LoginInputs : login(username, TRUE, TRUE)
    \/ \E tok \in tokens : create_company_user(tok, "carol", "user")
    \/ \E tok \in tokens, user_id \in UserIdInputs : delete_company_user(tok, user_id)
    \/ \E tok \in tokens : get_company_info(tok)
    \/ \E tok \in tokens : get_company_users(tok)
    \/ \E tok \in tokens : get_employees(tok)
    \/ \E tok \in tokens : get_all_time_entries(tok)
    \/ \E tok \in ScopedTokens : get_all_companies(tok)
    \/ \E tok \in ScopedTokens :
          create_company(tok, [name |-> "bolt", admin_username |-> "bob"])
    \/ \E tok \in ScopedTokens, c \in companies : delete_company(tok, c.id)
    \/ \E tok \in tokens, suffix \in Suffixes :
          create_employee(tok, <<"7">>, suffix)
    \/ \E tok \in tokens, id \in EmployeeIdInputs : update_employee(tok, id, {}, {<<"8">>})
    \/ \E tok \in tokens, id \in EmployeeIdInputs : delete_employee(tok, id)
    \/ \E tok \in tokens, e \in employees : scan_qr(tok, e.qr_code, {0})

SpecGate == Init /\ [][NextGate]_vars

\* Companies come and go: self-registration, and the owner's endpoints.
NextProv ==
    \/ \E company_data \in RegistrationInputs : register_company(company_data)
    \/ \E username \in {"owner", "alice"}, ok \in BOOLEAN : login(username, ok, ok)
    \/ \E tok \in tokens, company_data \in CompanyCreateInputs :
          create_company(tok, company_data)
    \/ \E tok \in tokens, company_id \in CompanyIdInputs :
          delete_company(tok, company_id)
    \/ \E tok \in tokens, suffix \in Suffixes :
          create_employee(tok, <<"7">>, suffix)
    \/ \E tok \in tokens, e \in employees : scan_qr(tok, e.qr_code, {0})

SpecProv == Init /\ [][NextProv]_vars

\* Company and user creation overlap: each request is a sequence of
\* storage steps.
NextReg ==
    \/ login("owner", TRUE, TRUE)
    \/ \E p \in RequestSlots,
          company_data \in { [company_name |-> "acme", admin_username |-> "alice"],
                             [company_name |-> "acme", admin_username |-> "bob"] } :
          RegisterStart(p, company_data)
    \/ \E p \in RequestSlots, tok \in tokens,
          company_data \in { [name |-> "acme", admin_username |-> "dave"],
                             [name |-> "cord", admin_username |-> "alice"] } :
          CreateCompanyStart(p, tok, company_data)
    \/ \E p \in RequestSlots : CompanyCheckUser(p)
    \/ \E p \in RequestSlots : CompanyCommit(p)
    \/ \E p \in RequestSlots, tok \in tokens : CreateUserStart(p, tok, "dave", "user")
    \/ \E p \in RequestSlots : CreateUserCommit(p)

SpecReg == Init /\ [][NextReg]_vars

\* Employee creation and renumbering overlap, in two companies.
NextEmp ==
    \/ \E company_data \in RegistrationInputs : register_company(company_data)
    \/ \E p \in RequestSlots, tok \in tokens, number \in Numbers, suffix \in Suffixes :
          CreateEmployeeStart(p, tok, number, suffix)
    \/ \E p \in RequestSlots : CreateEmployeeCommit(p)
    \/ \E p \in RequestSlots, tok \in tokens, id \in EmployeeIdInputs :
          UpdateEmployeeStart(p, tok, id, {<<"8">>})
    \/ \E p \in RequestSlots : UpdateEmployeeCheck(p)
    \/ \E p \in RequestSlots : UpdateEmployeeCommit(p)

SpecEmp == Init /\ [][NextEmp]_vars

\* A company is deleted while requests of its admin are in flight.
NextOrphan ==
    \/ register_company([company_name |-> "acme", admin_username |-> "alice"])
    \/ login("owner", TRUE, TRUE)
    \/ \E tok \in tokens, c \in companies : delete_company(tok, c.id)
    \/ \E p \in RequestSlots, tok \in tokens : CreateUserStart(p, tok, "carol", "user")
    \/ \E p \in RequestSlots : CreateUserCommit(p)
    \/ \E p \in RequestSlots, tok \in tokens, number \in Numbers, suffix \in Suffixes :
          CreateEmployeeStart(p, tok, number, suffix)
    \/ \E p \in RequestSlots : CreateEmployeeCommit(p)

SpecOrphan == Init /\ [][NextOrphan]_vars

\* UserCreate.role is a plain str: any text a client sends.
RoleInputs == { "user", "admin", "root" }

\* Users are created with roles of the client's choosing.
NextRole ==
    \/ \E company_data \in RegistrationInputs : register_company(company_data)
    \/ \E username \in LoginInputs : login(username, TRUE, TRUE)
    \/ \E tok \in tokens, company_data \in CompanyCreateInputs :
          create_company(tok, company_data)
    \/ \E tok \in tokens, role \in RoleInputs :
          create_company_user(tok, "carol", role)
    \/ \E tok \in tokens, user_id \in UserIdInputs : delete_company_user(tok, user_id)

SpecRole == Init /\ [][NextRole]_vars

\* Two companies with users, employees and time entries, and their admins
\* and users listing them.
NextList ==
    \/ \E company_data \in RegistrationInputs : register_company(company_data)
    \/ \E tok \in tokens : create_company_user(tok, "carol", "user")
    \/ login("carol", TRUE, TRUE)
    \/ \E tok \in tokens, suffix \in Suffixes :
          create_employee(tok, <<"7">>, suffix)
    \/ \E tok \in tokens, e \in employees : scan_qr(tok, e.qr_code, {0})
    \/ \E tok \in tokens : get_company_users(tok)
    \/ \E tok \in tokens : get_employees(tok)
    \/ \E tok \in tokens : get_all_time_entries(tok)
    \/ Advance(COOLDOWN_SECONDS * TicksPerSecond)

SpecList == Init /\ [][NextList]_vars

\* Every operation that writes, by the owner, an admin and a plain user.
NextOwner ==
    \/ register_company([company_name |-> "acme", admin_username |-> "alice"])
    \/ \E username \in LoginInputs : login(username, TRUE, TRUE)
    \/ \E tok \in tokens :
          create_company(tok, [name |-> "bolt", admin_username |-> "bob"])
    \/ \E tok \in tokens, c \in companies : delete_company(tok, c.id)
    \/ \E tok \in tokens : create_company_user(tok, "carol", "user")
    \/ \E tok \in tokens, u \in users : delete_company_user(tok, u.id)
    \/ \E tok \in tokens, suffix \in Suffixes :
          create_employee(tok, <<"7">>, suffix)
    \/ \E tok \in tokens, e \in employees : update_employee(tok, e.id, {}, {<<"8">>})
    \/ \E tok \in tokens, e \in employees : delete_employee(tok, e.id)
    \/ \E tok \in tokens, e \in employees : scan_qr(tok, e.qr_code, {0})

SpecOwner == Init /\ [][NextOwner]_vars

\* EmployeeUpdate.name: absent, or a new name.
NameInputs == { {}, {"bea"} }

\* Employees are renumbered and renamed, in two companies.
NextUpd ==
    \/ \E company_data \in RegistrationInputs : register_company(company_data)
    \/ \E tok \in tokens, number \in Numbers, suffix \in Suffixes :
          create_employee(tok, number, suffix)
    \/ \E tok \in tokens, e \in employees, name_opt \in NameInputs,
          number \in Numbers :
          update_employee(tok, e.id, name_opt, {number})

SpecUpd == Init /\ [][NextUpd]_vars

\* One company whose employees are created, renumbered, deleted and
\* scanned; each payload gets a suffix no other payload has, as
\* str(uuid.uuid4())[:8] gives.
NextQr ==
    \/ register_company([company_name |-> "acme", admin_username |-> "alice"])
    \/ \E tok \in tokens, number \in Numbers :
          create_employee(tok, number, Uuid(nextId.employee))
    \/ \E tok \in tokens, e \in employees, number \in Numbers :
          update_employee(tok, e.id, {}, {number})
    \/ \E tok \in tokens, e \in employees : delete_employee(tok, e.id)
    \/ \E tok \in tokens, e \in employees : scan_qr(tok, e.qr_code, {0})
    \/ Advance(COOLDOWN_SECONDS * TicksPerSecond)

SpecQr == Init /\ [][NextQr]_vars

\* Scan requests overlap with the deletion of the employee or the company.
NextScanDel ==
    \/ register_company([company_name |-> "acme", admin_username |-> "alice"])
    \/ login("owner", TRUE, TRUE)
    \/ \E tok \in tokens, suffix \in Suffixes :
          create_employee(tok, <<"7">>, suffix)
    \/ \E p \in Slots, tok \in tokens, e \in employees :
          ScanStart(p, tok, e.qr_code)
    \/ \E p \in Slots : ScanSelect(p)
    \/ \E p \in Slots : ScanWrite(p)
    \/ \E tok \in tokens, e \in employees : delete_employee(tok, e.id)
    \/ \E tok \in tokens, c \in companies : delete_company(tok, c.id)

SpecScanDel == Init /\ [][NextScanDel]_vars

\* A company with two admins whose requests to delete users overlap.
NextAdmins ==
    \/ register_company([company_name |-> "acme", admin_username |-> "alice"])
    \/ \E tok \in tokens, role \in {"admin", "user"} :
          create_company_user(tok, "carol", role)
    \/ login("carol", TRUE, TRUE)
    \/ \E p \in RequestSlots, tok \in tokens, u \in users :
          DeleteUserStart(p, tok, u.id)
    \/ \E p \in RequestSlots : DeleteUserCommit(p)

SpecAdmins == Init /\ [][NextAdmins]_vars

\* ----------------------------------------------------------------- claims
\* The token names a stored user row: the caller is a scoped principal.
Scoped(tok) ==
    /\ tok.type = "user"
    /\ \E u \in users : u.username = tok.sub /\ u.company_id = tok.company_id

\* qr_data is a payload issued for employee number `number` of `company_id`.
IssuedFor(qr_data, company_id, number) ==
    \E s \in Suffixes : qr_data = QrData(company_id, number, s)

\* A scoped principal of e's company scans a payload that names e.
ScansEmployee(tok, qr_data, e) ==
    /\ Scoped(tok)
    /\ tok.company_id = e.company_id
    /\ e \in employees
    /\ IssuedFor(qr_data, e.company_id, e.number)

OpenEntries(employee_id, date) ==
    { te \in time_entries :
        te.employee_id = employee_id /\ te.date = date /\ te.status = "working" }

\* C1: with scan requests of one employee overlapping, there is at most one
\* time entry with status working for each (employee, date) in every state.
C1_OneWorkingEntryUnderConcurrency ==
    \A a \in time_entries, b \in time_entries :
        ( /\ a.status = "working" /\ b.status = "working"
          /\ a.employee_id = b.employee_id /\ a.date = b.date ) => a = b

\* C2: with requests run one at a time, after any sequence of scan,
\* create-employee, update-employee and delete-employee there is at most one
\* working time entry for each (employee, date).
C2_OneWorkingEntrySequential ==
    \A te \in time_entries : Cardinality(OpenEntries(te.employee_id, te.date)) <= 1

\* An employee whose number was changed holds a working entry next to a
\* completed one of the same day.
C2_Witness ==
    \E e \in employees, a \in time_entries, b \in time_entries :
        /\ ~ IssuedFor(e.qr_code, e.company_id, e.number)
        /\ a.employee_id = e.id /\ b.employee_id = e.id
        /\ a.date = b.date
        /\ a.status = "working" /\ b.status = "completed"

\* The rows of company c: its users, its employees, its employees' entries.
TenantRows(c) ==
    << { u \in users : u.company_id = c },
       { e \in employees : e.company_id = c },
       { te \in time_entries :
           \E e \in employees : e.id = te.employee_id /\ e.company_id = c } >>

\* A request of the employee and scan endpoints, made with token tok.
ScopedRequest(tok) ==
    \/ \E suffix \in Suffixes : create_employee(tok, <<"7">>, suffix)
    \/ \E id \in EmployeeIdInputs, n \in Numbers : update_employee(tok, id, {}, {n})
    \/ \E id \in EmployeeIdInputs : delete_employee(tok, id)
    \/ \E e \in employees : scan_qr(tok, e.qr_code, {0})

\* C3: no request of a scoped principal of company B creates, modifies or
\* deletes a user, employee or time entry of another company A, whatever
\* identifiers the client supplies.
C3_NoCrossTenantWrite ==
    [][ \A tok \in tokens : \A c \in companies :
          (ScopedRequest(tok) /\ Scoped(tok) /\ c.id # tok.company_id)
              => TenantRows(c.id)' = TenantRows(c.id) ]_vars

CooldownTicks == COOLDOWN_SECONDS * TicksPerSecond

\* C4: a scan by a principal bound to company B of a payload that encodes
\* another company A fails as forbidden (cross-tenant) and changes no time
\* entry, whether or not the encoded number exists in A or in B.
C4_CrossTenantScanForbidden ==
    [][ \A tok \in TokenInputs : Scoped(tok) =>
          \A a \in CompanyIdInputs : a # tok.company_id =>
            \A n \in Numbers, qr_data \in QrInputs :
              (IssuedFor(qr_data, a, n) /\ ScanAt(tok, qr_data, 0, 0))
              => ( /\ last'.op = "scan"
                   /\ last'.status = 403
                   /\ last'.detail = "QR kod nie nalezy do Twojej firmy"
                   /\ time_entries' = time_entries ) ]_vars

\* A cross-tenant scan was refused while the same number exists in two
\* companies and an entry is stored.
C4_Witness ==
    /\ last.op = "scan" /\ last.status = 403
    /\ last.detail = "QR kod nie nalezy do Twojej firmy"
    /\ \E e1 \in employees, e2 \in employees :
          e1.company_id # e2.company_id /\ e1.number = e2.number
    /\ time_entries # {}

\* C5: a scan of an employee with a working entry for today, made less than
\* COOLDOWN_SECONDS after that entry's last_scan_time, is rejected with 429
\* and leaves every field of every time entry unchanged.
C5_CooldownRejectsWithoutMutation ==
    [][ \A tok \in tokens, e \in employees, lag1 \in Lags, lag2 \in Lags,
           te \in time_entries :
          ( /\ ScanAt(tok, e.qr_code, lag1, lag2)
            /\ ScansEmployee(tok, e.qr_code, e)
            /\ te.employee_id = e.id /\ te.status = "working"
            /\ te.date \in {DateOf(now), DateOf(now + lag1)}
            /\ (now + lag1) - te.last_scan_time < CooldownTicks )
          => ( /\ last'.op = "scan" /\ last'.status = 429
               /\ time_entries' = time_entries ) ]_vars

\* A scan was rejected one tick before the cooldown ran out.
C5_Witness ==
    /\ last.op = "scan" /\ last.status = 429
    /\ \E te \in time_entries :
          /\ te.id = last.entry /\ te.status = "working"
          /\ now - te.last_scan_time = CooldownTicks - 1

\* C6: two scans of one employee that both change state are at least
\* COOLDOWN_SECONDS apart, also when the earlier one was a check-out.
C6_StateChangingScansApart ==
    [][ \A tok \in TokenInputs, qr_data \in QrInputs, e \in employees :
          ( /\ ScanAt(tok, qr_data, 0, 0)
            /\ ScansEmployee(tok, qr_data, e)
            /\ time_entries' # time_entries )
          => \A te \in time_entries :
                te.employee_id = e.id => now' - te.last_scan_time >= CooldownTicks ]_vars

\* C7: a cooldown rejection at time t of an entry last scanned at s reports
\* COOLDOWN_SECONDS - (t - s) in whole seconds, and of two rejections of the
\* same entry the later one reports no more than the earlier one.
C7_RemainingSecondsReported ==
    [][ \A tok \in tokens, e \in employees, lag1 \in Lags, lag2 \in Lags :
          ( /\ ScanAt(tok, e.qr_code, lag1, lag2)
            /\ last'.status = 429 )
          => ( /\ \E te \in time_entries :
                     /\ te.id = last'.entry
                     /\ te.employee_id = e.id
                     /\ LET left == CooldownTicks - ((now + lag1) - te.last_scan_time)
                        IN  /\ last'.remaining * TicksPerSecond <= left
                            /\ left < (last'.remaining + 1) * TicksPerSecond
               /\ (last.status = 429 /\ last.entry = last'.entry)
                     => last'.remaining <= last.remaining ) ]_vars

\* A rejection two and a half seconds into the window reported 2 seconds.
C7_Witness ==
    /\ last.op = "scan" /\ last.status = 429
    /\ \E te \in time_entries :
          /\ te.id = last.entry
          /\ 2 * (CooldownTicks - (now - te.last_scan_time)) = CooldownTicks
          /\ 2 * last.remaining < COOLDOWN_SECONDS

\* C8: once a time entry is completed no scan changes any of its fields,
\* under every interleaving of overlapping scans of the same employee.
C8_CompletedIsFinal ==
    [][ \A te \in time_entries :
          te.status = "completed" => te \in time_entries' ]_vars

\* C9: a valid scan of an employee with no working entry for today creates
\* exactly one entry (check_in = now, date = today, status working,
\* last_scan_time = now, check_out empty), reports check_in, and leaves all
\* existing entries unchanged, also when completed entries of the day exist.
C9_CheckInCreatesOneEntry ==
    [][ \A tok \in TokenInputs, qr_data \in QrInputs, e \in employees :
          ( /\ ScansEmployee(tok, qr_data, e)
            /\ OpenEntries(e.id, DateOf(now)) = {}
            /\ ScanAt(tok, qr_data, 0, 0) )
          => ( /\ last'.op = "scan" /\ last'.status = 200
               /\ last'.detail = "check_in"
               /\ \E new \in time_entries' :
                     /\ new \notin time_entries
                     /\ \A old \in time_entries : old.id # new.id
                     /\ time_entries' = time_entries \cup {new}
                     /\ new.employee_id = e.id
                     /\ new.check_in = now'
                     /\ new.date = DateOf(now)
                     /\ new.status = "working"
                     /\ new.last_scan_time = now'
                     /\ new.check_out = NULL ) ]_vars

\* A check-in was recorded next to a completed entry of the same employee
\* and day.
C9_Witness ==
    /\ last.op = "scan" /\ last.status = 200 /\ last.detail = "check_in"
    /\ \E new \in time_entries, old \in time_entries :
          /\ new.id = last.entry /\ new.status = "working"
          /\ old.employee_id = new.employee_id /\ old.date = new.date
          /\ old.status = "completed"

\* C10: a valid scan of an employee whose working entry for today was last
\* scanned at least COOLDOWN_SECONDS ago sets that entry's check_out = now,
\* status = completed, last_scan_time = now, reports check_out, keeps its
\* check_in, date and employee_id, and creates or changes no other entry.
C10_CheckOutCompletesEntry ==
    [][ \A tok \in TokenInputs, qr_data \in QrInputs, e \in employees,
           te \in time_entries :
          ( /\ ScansEmployee(tok, qr_data, e)
            /\ te \in OpenEntries(e.id, DateOf(now))
            /\ now - te.last_scan_time >= CooldownTicks
            /\ ScanAt(tok, qr_data, 0, 0) )
          => ( /\ last'.op = "scan" /\ last'.status = 200
               /\ last'.detail = "check_out"
               /\ time_entries' = (time_entries \ {te}) \cup
                     { [id |-> te.id, employee_id |-> te.employee_id,
                        check_in |-> te.check_in, check_out |-> now',
                        date |-> te.date, status |-> "completed",
                        last_scan_time |-> now'] } ) ]_vars

\* A check-out exactly COOLDOWN_SECONDS after the check-in, with another
\* entry stored beside it.
C10_Witness ==
    /\ last.op = "scan" /\ last.status = 200 /\ last.detail = "check_out"
    /\ \E te \in time_entries, other \in time_entries :
          /\ te.id = last.entry /\ te.status = "completed"
          /\ te.check_out - te.check_in = CooldownTicks
          /\ other.id # te.id

\* C11: the payload made at employee creation decodes to exactly the
\* employee's (company_id, number), also for a number that holds "_".
C11_DecodeInvertsEncode ==
    \A e \in employees :
        /\ Len(Split(e.qr_code, "_")) >= 3
        /\ DecodeQr(e.qr_code) = <<e.company_id, e.number>>

\* The stored rows a scan could touch.
StoredRows == <<companies, users, employees, time_entries>>

\* C12: a scan of a payload without the prefix EMP_, or not made of exactly
\* the four fields EMP, company id, number, suffix, is answered 400 and
\* changes no stored row.
C12_MalformedPayloadRejected ==
    [][ \A tok \in tokens, qr_data \in CodecQrInputs :
          ( /\ ScanAt(tok, qr_data, 0, 0)
            /\ Scoped(tok)
            /\ \/ ~ StartsWith(qr_data, Str_EMP_)
               \/ Len(Split(qr_data, "_")) # 4 )
          => ( /\ last'.op = "scan" /\ last'.status = 400
               /\ StoredRows' = StoredRows ) ]_vars

\* C13: a scan of a well-formed payload of the caller's own company whose
\* number matches no employee of that company is answered 404 and creates
\* or changes no time entry.
C13_UnknownEmployeeNotFound ==
    [][ \A tok \in TokenInputs, qr_data \in QrInputs, n \in Numbers :
          ( /\ Scoped(tok)
            /\ IssuedFor(qr_data, tok.company_id, n)
            /\ ~ \E e \in employees :
                    e.company_id = tok.company_id /\ e.number = n
            /\ ScanAt(tok, qr_data, 0, 0) )
          => ( /\ last'.op = "scan" /\ last'.status = 404
               /\ last'.detail = "Employee not found"
               /\ time_entries' = time_entries ) ]_vars

\* An unknown number was refused while the caller's company has an employee
\* with a stored entry.
C13_Witness ==
    /\ last.op = "scan" /\ last.status = 404
    /\ \E u \in users, e \in employees, te \in time_entries :
          /\ e.company_id = u.company_id /\ te.employee_id = e.id
          /\ \A c \in companies : c.id = u.company_id

\* The token names a stored owner row.
IsOwner(tok) ==
    /\ tok.type = "owner"
    /\ \E o \in owners : o.username = tok.sub

\* The role column of the users row the token resolves to.
StoredRole(tok) ==
    (CHOOSE u \in users : u.username = tok.sub /\ u.company_id = tok.company_id).role

\* A request of an owner-only endpoint made with token tok.
OwnerOnlyRequest(tok) ==
    \/ get_all_companies(tok)
    \/ \E company_data \in CompanyCreateInputs : create_company(tok, company_data)
    \/ \E company_id \in CompanyIdInputs : delete_company(tok, company_id)

\* A request of an admin-only endpoint made with token tok.
AdminOnlyRequest(tok) ==
    \/ get_company_users(tok)
    \/ \E user_data \in UserCreateInputs :
          create_company_user(tok, user_data.username, user_data.role)
    \/ \E user_id \in UserIdInputs : delete_company_user(tok, user_id)
    \/ get_employees(tok)
    \/ \E suffix \in Suffixes : create_employee(tok, <<"7">>, suffix)
    \/ \E id \in EmployeeIdInputs : update_employee(tok, id, {}, {<<"8">>})
    \/ \E id \in EmployeeIdInputs : delete_employee(tok, id)
    \/ get_all_time_entries(tok)

\* A request of an endpoint open to every company user, made with token tok.
ScopedOnlyRequest(tok) ==
    \/ get_company_info(tok)
    \/ \E e \in employees : scan_qr(tok, e.qr_code, {0})

Tables == <<owners, companies, users, employees, time_entries>>

\* C14: once the users row a token was issued for is deleted, the token
\* never resolves to a principal again, whatever users are created later,
\* and every request made with it is answered 401 and changes no table.
C14_DeletedUserStaysRevoked ==
    [][ \A tok \in tokens :
          (tok.type = "user" /\ ~ Scoped(tok))
          => ( /\ ~ Scoped(tok)'
               /\ ( \/ OwnerOnlyRequest(tok)
                    \/ AdminOnlyRequest(tok)
                    \/ ScopedOnlyRequest(tok) )
                  => (last'.status = 401 /\ Tables' = Tables) ) ]_vars

\* C15: an owner-only endpoint called by a company user, an admin-only
\* endpoint called by a company user whose stored role is not admin, and a
\* company endpoint called by an owner are each answered 403 and change no
\* table.
C15_RoleGates ==
    [][ \A tok \in tokens :
          /\ (Scoped(tok) /\ OwnerOnlyRequest(tok))
                => (last'.status = 403 /\ Tables' = Tables)
          /\ (Scoped(tok) /\ StoredRole(tok) # "admin" /\ AdminOnlyRequest(tok))
                => (last'.status = 403 /\ Tables' = Tables)
          /\ (IsOwner(tok) /\ ScopedOnlyRequest(tok))
                => (last'.status = 403 /\ Tables' = Tables) ]_vars

\* A plain user was refused the deletion of an employee that has an entry.
C15_Witness ==
    /\ last.op = "delete_employee" /\ last.status = 403
    /\ last.detail = "Not enough permissions"
    /\ \E u \in users : u.role = "user"
    /\ \E e \in employees, te \in time_entries : te.employee_id = e.id

\* C20: register_company, or create_company by an owner, with the name of
\* a stored company is answered with the duplicate-name conflict and leaves
\* every table as it was.
C20_DuplicateNameRejected ==
    [][ /\ \A company_data \in RegistrationInputs :
             ( /\ \E c \in companies : c.name = company_data.company_name
               /\ register_company(company_data) )
             => ( /\ last'.status = 400
                  /\ last'.detail = "Firma o tej nazwie juz istnieje"
                  /\ Tables' = Tables )
        /\ \A tok \in tokens, company_data \in CompanyCreateInputs :
             ( /\ IsOwner(tok)
               /\ \E c \in companies : c.name = company_data.name
               /\ create_company(tok, company_data) )
             => ( /\ last'.status = 400
                  /\ last'.detail = "Firma o tej nazwie juz istnieje"
                  /\ Tables' = Tables ) ]_vars

\* The owner was refused a second company of the name of a self-registered
\* one, with a free admin username.
C20_Witness ==
    /\ last.op = "create_company" /\ last.status = 400
    /\ last.detail = "Firma o tej nazwie juz istnieje"
    /\ \E c \in companies : c.name = "acme" /\ c.owner_id = "system"
    /\ ~ \E u \in users : u.username = "dave"
    /\ \E c \in companies : c.name = "bolt" /\ c.owner_id # "system"

\* C16: with create_company and register_company requests overlapping in
\* any way, no two company rows have the same name in any state.
C16_CompanyNamesUnique ==
    \A c1 \in companies, c2 \in companies : c1.name = c2.name => c1 = c2

\* C18: no two user rows have the same username, across all companies,
\* after any interleaving of create_company, register_company and
\* create_company_user requests.
C18_UsernamesUnique ==
    \A u1 \in users, u2 \in users : u1.username = u2.username => u1 = u2

\* A user INSERT of create_company_user lost the race for its username to a
\* company admin and was rejected by the store.
C18_Witness ==
    /\ last.op = "create_company_user" /\ last.status = 500
    /\ \E u \in users : u.username = "dave" /\ u.role = "admin"

\* C19: a create_company or register_company request that completes either
\* adds one company row together with its admin user row (role admin, the
\* new company's id), or, when it fails, adds neither; and no company row
\* ever appears without its admin user row appearing in the same step.
C19_CompanyWithAdminOrNothing ==
    [][ /\ \A c \in companies' \ companies :
             \E u \in users' \ users : u.role = "admin" /\ u.company_id = c.id
        /\ \A p \in RequestSlots :
             ( /\ requests[p].pc = "insert"
               /\ requests[p].op \in {"register_company", "create_company"}
               /\ requests'[p].pc = "idle" )
             => IF last'.status = 200
                THEN \E c \in companies' \ companies, u \in users' \ users :
                        /\ companies' = companies \cup {c}
                        /\ users' = users \cup {u}
                        /\ c.name = requests[p].data.name
                        /\ u.username = requests[p].data.admin_username
                        /\ u.role = "admin" /\ u.company_id = c.id
                ELSE companies' = companies /\ users' = users ]_vars

\* The admin INSERT of a company request was rejected by the store, the
\* username having been taken while the request was in flight.
C19_Witness ==
    /\ last.op \in {"register_company", "create_company"} /\ last.status = 500
    /\ \E u \in users : u.username \in {"alice", "dave"}
    /\ \A c \in companies : \E u \in users : u.role = "admin" /\ u.company_id = c.id

\* C17: no two employee rows of one company have the same number, after
\* any interleaving of create_employee and update_employee requests; two
\* companies may hold the same number.
C17_EmployeeNumbersUniquePerCompany ==
    \A e1 \in employees, e2 \in employees :
        (e1.company_id = e2.company_id /\ e1.number = e2.number) => e1 = e2

\* An employee write lost the race for its number and was rejected by the
\* store, while two companies hold the same number.
C17_Witness ==
    /\ last.op \in {"create_employee", "update_employee"} /\ last.status = 500
    /\ \E e1 \in employees, e2 \in employees :
          e1.company_id # e2.company_id /\ e1.number = e2.number

\* C21: when delete_company(c) succeeds, no user of c, no employee of c, no
\* time entry of an employee that belonged to c and no company row c remain,
\* and the rows of every other company, and the owners, are as before.
C21_DeleteCompanyCascade ==
    [][\A tok \in tokens, c \in CompanyIdInputs :
          ((\E x \in companies : x.id = c) /\ IsOwner(tok)
              /\ delete_company(tok, c))
          => LET gone == { e.id : e \in { x \in employees : x.company_id = c } }
             IN  /\ last'.status = 200
                 /\ ~ \E u \in users' : u.company_id = c
                 /\ ~ \E e \in employees' : e.company_id = c
                 /\ ~ \E te \in time_entries' : te.employee_id \in gone
                 /\ ~ \E x \in companies' : x.id = c
                 /\ users' = { u \in users : u.company_id # c }
                 /\ employees' = { e \in employees : e.company_id # c }
                 /\ time_entries' =
                        { te \in time_entries : te.employee_id \notin gone }
                 /\ companies' = { x \in companies : x.id # c }
                 /\ owners' = owners]_vars

\* A company whose employee had a time entry was deleted; another company and
\* its employee's time entry are still there.
C21_Witness ==
    /\ last.op = "delete_company" /\ last.status = 200
    /\ nextId.entry = 3
    /\ Cardinality(time_entries) = 1
    /\ Cardinality(employees) = 1
    /\ Cardinality(companies) = 1
    /\ \A te \in time_entries : \E e \in employees : e.id = te.employee_id

\* C22: delete_company with an id that matches no company row answers 404
\* "Company not found" and deletes nothing.
C22_DeleteUnknownCompanyNotFound ==
    [][\A tok \in tokens, c \in CompanyIdInputs :
          ((~ \E x \in companies : x.id = c) /\ IsOwner(tok)
              /\ delete_company(tok, c))
          => /\ last'.status = 404
             /\ last'.detail = "Company not found"
             /\ Tables' = Tables]_vars

\* The owner asked to delete a company that is not there, while another is.
C22_Witness ==
    /\ last.op = "delete_company" /\ last.status = 404
    /\ companies # {}

C24_DeleteEmployeeCascade ==
    [][\A tok \in tokens, e \in employees :
          (Scoped(tok) /\ tok.company_id = e.company_id)
          => ((StoredRole(tok) = "admin" /\ delete_employee(tok, e.id))
              => /\ last'.status = 200
                 /\ ~ \E x \in employees' : x.id = e.id
                 /\ ~ \E te \in time_entries' : te.employee_id = e.id
                 /\ employees' = employees \ {e}
                 /\ time_entries' =
                        { te \in time_entries : te.employee_id # e.id })]_vars

\* An employee with a time entry was deleted; another employee and its time
\* entry are still there.
C24_Witness ==
    /\ last.op = "delete_employee" /\ last.status = 200
    /\ nextId.employee = 3 /\ Cardinality(employees) = 1
    /\ nextId.entry = 3 /\ Cardinality(time_entries) = 1
    /\ \A te \in time_entries : \E e \in employees : e.id = te.employee_id

C26_ListsOnlyOwnCompany ==
    [][\A tok \in tokens :
          Scoped(tok)
          => /\ (get_employees(tok) /\ last'.status = 200)
                => \A r \in last'.rows :
                       r \in employees /\ r.company_id = tok.company_id
             /\ (get_company_users(tok) /\ last'.status = 200)
                => \A r \in last'.rows :
                       \A u \in users :
                           u.id = r.id => u.company_id = tok.company_id
             /\ (get_all_time_entries(tok) /\ last'.status = 200)
                => \A r \in last'.rows :
                       /\ r.entry \in time_entries
                       /\ \A e \in employees :
                              e.id = r.entry.employee_id
                              => e.company_id = tok.company_id]_vars

\* An admin was given the time entries of the company while another company
\* has time entries too.
C26_Witness ==
    /\ last.op = "get_all_time_entries" /\ last.status = 200
    /\ last.rows # {}
    /\ \E te \in time_entries : te \notin { r.entry : r \in last.rows }

\* C27: no request (login, register_company, create_company, delete_company,
\* user and employee management, scan) adds, changes or removes an owners
\* row: the table stays as the start-up bootstrap left it.
C27_OwnersOnlyFromBootstrap ==
    [][owners' = owners]_vars

\* The owner has logged in, created a company and deleted one, and the
\* owners table is what the bootstrap made it.
C27_Witness ==
    /\ last.op = "delete_company" /\ last.status = 200
    /\ nextId.company = 3
    /\ \E tok \in tokens : IsOwner(tok)
    /\ owners = create_default_owner({})

\* C28: a create_employee request whose INSERT the store rejects, because an
\* overlapping request took the number after both passed the SELECT check,
\* answers with the conflict status 400 and never with a 500.
C28_RejectedInsertIsConflict ==
    [][\A p \in RequestSlots :
          (/\ requests[p].pc = "insert"
           /\ requests[p].op = "create_employee"
           /\ EmployeeKeyRejected(requests[p].data.number,
                                  requests[p].tok.company_id, nextId.employee)
           /\ CreateEmployeeCommit(p))
          => last'.status = 400]_vars

\* C29: an admin's update_employee that names the employee's own current
\* number succeeds and keeps the number; one that names the number of another
\* employee of the company answers 400 and leaves every employee row as it
\* was, also when a name is sent in the same request.
C29_RenumberChecksOtherRows ==
    [][\A tok \in tokens, e \in employees :
          (Scoped(tok) /\ tok.company_id = e.company_id)
          => \A name_opt \in NameInputs, n \in Numbers :
                (StoredRole(tok) = "admin"
                    /\ update_employee(tok, e.id, name_opt, {n}))
                => /\ n = e.number
                      => /\ last'.status = 200
                         /\ employees' =
                                (employees \ {e}) \cup
                                    { [e EXCEPT !.name = Given(name_opt, @)] }
                   /\ (\E x \in employees :
                           /\ x.company_id = e.company_id
                           /\ x.id # e.id
                           /\ x.number = n)
                      => /\ last'.status = 400
                         /\ last'.detail =
                                "Numer pracownika juz istnieje w tej firmie"
                         /\ employees' = employees]_vars

\* An update was refused for the number of another employee of the company,
\* in a company whose employees have been renamed before.
C29_Witness ==
    /\ last.op = "update_employee" /\ last.status = 400
    /\ \E e1 \in employees, e2 \in employees :
          /\ e1.company_id = e2.company_id
          /\ e1.number # e2.number
          /\ e1.name = "bea"

\* C30: an accepted scan of the payload issued when employee e was created
\* creates or changes time entries of e only, whatever updates (renumberings
\* included), deletions and creations of employees came before.
C30_PayloadBoundToEmployee ==
    [][\A tok \in tokens, e \in employees :
          (Scoped(tok) /\ tok.company_id = e.company_id)
          => ((ScanAt(tok, e.qr_code, 0, 0) /\ last'.status = 200)
              => \A te \in time_entries' \ time_entries :
                     te.employee_id = e.id)]_vars

\* C31: in every reachable state, with scans interleaved with delete_employee
\* and delete_company, every time entry names an employee row that exists.
C31_EntriesReferenceEmployee ==
    \A te \in time_entries : \E e \in employees : e.id = te.employee_id

\* C32: in every reachable state, whatever delete_company_user requests the
\* company's admins make and however they overlap, every company has at
\* least one user with role "admin".
C32_CompanyKeepsAnAdmin ==
    \A c \in companies :
        \E u \in users : u.company_id = c.id /\ u.role = "admin"

\* C33: with requests run one at a time and a clock that never goes back,
\* every time entry has check_in set; it is "working" exactly when check_out
\* is empty; last_scan_time is check_in while working and check_out once
\* completed; and a completed entry's check_out is at least COOLDOWN_SECONDS
\* after its check_in.
C33_EntryShape ==
    \A te \in time_entries :
        /\ te.check_in # NULL
        /\ te.status \in {"working", "completed"}
        /\ (te.status = "working") <=> (te.check_out = NULL)
        /\ te.status = "working" => te.last_scan_time = te.check_in
        /\ te.status = "completed"
              => /\ te.last_scan_time = te.check_out
                 /\ te.check_out - te.check_in >= CooldownTicks

\* An entry was completed as early as the cooldown allows, next to one that
\* is still open.
C33_Witness ==
    /\ \E te \in time_entries :
          te.status = "completed" /\ te.check_out - te.check_in = CooldownTicks
    /\ \E te \in time_entries : te.status = "working"

\* C34: a scan creates or changes only entries dated the day of the scan: an
\* entry of another day, open or not, stays as it is, and a valid scan of an
\* employee with no working entry dated today is a check-in that adds a
\* working entry dated today, whatever entries earlier days left open.
C34_ScanTouchesTodayOnly ==
    [][ \A tok \in TokenInputs, qr_data \in QrInputs, e \in employees :
          ( /\ ScansEmployee(tok, qr_data, e)
            /\ ScanAt(tok, qr_data, 0, 0) )
          => ( /\ \A te \in time_entries :
                     te.date # DateOf(now) => te \in time_entries'
               /\ \A te \in time_entries' \ time_entries :
                     te.date = DateOf(now)
               /\ OpenEntries(e.id, DateOf(now)) = {}
                     => /\ last'.status = 200 /\ last'.detail = "check_in"
                        /\ \E new \in time_entries' \ time_entries :
                              /\ new.employee_id = e.id
                              /\ new.status = "working"
                              /\ new.check_out = NULL ) ]_vars

\* One employee has working entries on two dates: the scan of the later day
\* was a check-in, and the entry left open the day before is still open.
C34_Witness ==
    /\ last.op = "scan" /\ last.status = 200 /\ last.detail = "check_in"
    /\ \E new \in time_entries, old \in time_entries :
          /\ new.id = last.entry /\ new.status = "working"
          /\ old.employee_id = new.employee_id
          /\ old.date < new.date
          /\ old.status = "working" /\ old.check_out = NULL

====
